---- MODULE Spec2Model ----
(***************************************************************************)
(* Model of jira-import-app/app.py: the three-stage conversion pipeline    *)
(* (preprocess, dataframeprocess, postprocess) and the upload handler      *)
(* around it (upload_file, preprocess_file, upload_to_bucket).             *)
(*                                                                         *)
(* A table is [columns |-> sequence of column names, rows |-> sequence of  *)
(* rows], a row being a function from the table's column names to cells.   *)
(* Cells are strings, as pandas.read_csv delivers them for a column that   *)
(* holds any text; the missing value (an empty CSV cell) is NaN.           *)
(***************************************************************************)
EXTENDS Integers, Sequences, FiniteSets, TLC

\* ------------------------------------------------------------------ bounds
\* Longest table body (the rows below the first data row) that Init draws.
MaxRows == 4
\* Highest clock second the concurrent specification lets time reach.
MaxClock == 1

\* ------------------------------------------------------------ cell values
\* pandas' missing value: what read_csv makes of an empty cell.
NaN == "nan"

Range(s) == {s[i] : i \in 1..Len(s)}

Min(a, b) == IF a < b THEN a ELSE b

\* pd.notna(x)
notna(x) == x # NaN

\* The strings float() accepts, within the bounded integer day estimates.
Numeric == {"0", "1", "2", "3"}

\* float(x): the number a cell text denotes (called only on Numeric texts;
\* on any other text Python raises ValueError, see CanFloat).
float(x) ==
  CASE x = "0" -> 0
    [] x = "1" -> 1
    [] x = "2" -> 2
    [] x = "3" -> 3

CanFloat(x) == x \in Numeric

\* ------------------------------------------------------------- error kinds
\* Every failure of the pipeline is a Python ValueError; the kinds below
\* name the distinct messages (and float()'s own ValueError).
NoError == "ok"
EmptyInputError == "Input data is empty or doesn't have enough rows"
MissingEpicColumnError == "'EPIC' column not found"
MissingSentinelError == "The word 'END' is not found in the EPIC column"
MissingColumnError == "Input data does not have the required columns"
OrphanStoryError == "Story row does not have an associated Epic"
InvalidEstimateError == "could not convert string to float"

\* ------------------------------------------------------------- preprocess
PlaceholderCols == {"Unnamed: 3", "Unnamed: 5", "Unnamed: 7"}

\* data.drop(columns=[...]) for the three placeholder columns.
DropPlaceholders(cols) == SelectSeq(cols, LAMBDA c : c \notin PlaceholderCols)

\* data.iloc[:, :6]
FirstSix(cols) == SubSeq(cols, 1, Min(6, Len(cols)))

\* data.drop(index=0): the first data row goes.
DropFirst_Kept(rows) == rows
DropFirst(rows) == Tail(rows)

\* A row cut down to the columns kept.
Project(row, cols) == [c \in Range(cols) |-> row[c]]

\* dropna(how="all"): a row is dropped when every kept cell is missing.
AllNaN(row) == \A c \in DOMAIN row : row[c] = NaN

\* data[data["EPIC"] == "END"].index[0], as a 1-based position.
EndIndex(rows) ==
  CHOOSE i \in 1..Len(rows) :
    /\ rows[i]["EPIC"] = "END"
    /\ \A j \in 1..(i - 1) : rows[j]["EPIC"] # "END"

HasEnd(rows) == \E i \in 1..Len(rows) : rows[i]["EPIC"] = "END"

\* data[:end_index]
CutAtEnd_Inclusive(rows) == SubSeq(rows, 1, EndIndex(rows))
CutAtEnd(rows) == SubSeq(rows, 1, EndIndex(rows) - 1)

Failed(kind, cols) == [err |-> kind, columns |-> cols, rows |-> <<>>]

\* preprocess(data): [err, columns, rows]; rows are re-indexed from 0 in
\* the code (reset_index), i.e. position p of the result has index p - 1.
preprocess(data) ==
  IF Len(data.rows) < 2
  THEN Failed(EmptyInputError, data.columns)
  ELSE
    LET rest == DropFirst(data.rows)
        cols == FirstSix(DropPlaceholders(data.columns))
        kept == SelectSeq([i \in 1..Len(rest) |-> Project(rest[i], cols)],
                          LAMBDA r : ~AllNaN(r))
    IN  IF "EPIC" \notin Range(cols)
        THEN Failed(MissingEpicColumnError, cols)
        ELSE IF HasEnd(kept)
             THEN [err |-> NoError, columns |-> cols, rows |-> CutAtEnd(kept)]
             ELSE Failed(MissingSentinelError, cols)

\* ------------------------------------------------------- dataframeprocess
required_cols == {"EPIC", "SUMMARY", "IOS", "AND", "SERV", "NOTES"}

columns ==
  <<"Issue Type", "Epic Name", "Epic Link", "Summary", "Description",
    "Components", "Original Estimate">>

\* The three platform blocks of the loop body, in the order the code runs
\* them: Server, then iOS, then Android.
Platforms_iOSFirst ==
  << [col |-> "IOS", tag |-> "iOS"],
     [col |-> "SERV", tag |-> "Server"],
     [col |-> "AND", tag |-> "Android"] >>
Platforms ==
  << [col |-> "SERV", tag |-> "Server"],
     [col |-> "IOS", tag |-> "iOS"],
     [col |-> "AND", tag |-> "Android"] >>

\* The dict appended for an Epic row.
EpicRecord(row) ==
  [c \in Range(columns) |->
     CASE c = "Issue Type" -> "Epic"
       [] c = "Epic Name" -> row["EPIC"]
       [] c = "Summary" -> row["SUMMARY"]
       [] c = "Description" -> row["NOTES"]
       [] OTHER -> ""]

\* The dict appended for one populated platform cell of a Story row.
StoryRecord_NameForLink(row, current_epic_name, p) ==
  [c \in Range(columns) |->
     CASE c = "Issue Type" -> "Story"
       [] c = "Epic Name" -> current_epic_name
       [] c = "Summary" -> row["SUMMARY"]
       [] c = "Description" -> row["NOTES"]
       [] c = "Components" -> p.tag
       [] c = "Original Estimate" -> row[p.col]
       [] OTHER -> ""]
StoryRecord(row, current_epic_name, p) ==
  [c \in Range(columns) |->
     CASE c = "Issue Type" -> "Story"
       [] c = "Epic Link" -> current_epic_name
       [] c = "Summary" -> row["SUMMARY"]
       [] c = "Description" -> row["NOTES"]
       [] c = "Components" -> p.tag
       [] c = "Original Estimate" -> row[p.col]
       [] OTHER -> ""]

RECURSIVE SumSeq(_)
SumSeq(s) == IF s = <<>> THEN 0 ELSE Head(s) + SumSeq(Tail(s))

\* The platform blocks whose `if pd.notna(row[...])` is taken, in order.
Populated_NumericOnly(row) ==
  SelectSeq(Platforms, LAMBDA p : notna(row[p.col]) /\ CanFloat(row[p.col]))
Populated(row) == SelectSeq(Platforms, LAMBDA p : notna(row[p.col]))

\* State of the loop before its first iteration.
LoopInit ==
  [err |-> NoError, index |-> 0, current_epic_name |-> "",
   epic_estimates |-> <<>>, epic_components_tracker |-> <<>>,
   data_rows |-> <<>>, origin |-> <<>>]

\* The `if pd.notna(row["EPIC"])` branch.
EpicRow(acc, index, row) ==
  [acc EXCEPT
     !.current_epic_name = row["EPIC"],
     !.epic_estimates = (row["EPIC"] :> 0) @@ @,
     !.epic_components_tracker =
        (row["EPIC"] :> [Android |-> FALSE, iOS |-> FALSE, Server |-> FALSE]) @@ @,
     !.data_rows = Append(@, EpicRecord(row)),
     !.origin = Append(@, index)]

\* Lines 113-161: the three platform blocks of a Story row and the addition
\* to the epic's sum.  float() raises at the first populated cell that is no
\* number, and the exception discards everything the loop has built.
PlatformBlocks(acc, index, row) ==
  LET cells == Populated(row)
      cur == acc.current_epic_name
  IN  IF \E k \in 1..Len(cells) : ~CanFloat(row[cells[k].col])
      THEN [acc EXCEPT !.err = InvalidEstimateError, !.index = index]
      ELSE
        LET story_estimates == [k \in 1..Len(cells) |-> float(row[cells[k].col])]
        IN  [acc EXCEPT
               !.epic_components_tracker[cur] =
                  [f \in DOMAIN @ |->
                     @[f] \/ \E k \in 1..Len(cells) : cells[k].tag = f],
               !.epic_estimates[cur] = @ + SumSeq(story_estimates),
               !.data_rows =
                  @ \o [k \in 1..Len(cells) |-> StoryRecord(row, cur, cells[k])],
               !.origin = @ \o [k \in 1..Len(cells) |-> index]]

\* The `elif pd.notna(row["SUMMARY"])` branch: the orphan check of lines
\* 108-111, then the platform blocks.
StoryRow_SilentSkip(acc, index, row) ==
  IF acc.current_epic_name = "" THEN acc ELSE PlatformBlocks(acc, index, row)
StoryRow(acc, index, row) ==
  IF acc.current_epic_name = ""
  THEN [acc EXCEPT !.err = OrphanStoryError, !.index = index]
  ELSE PlatformBlocks(acc, index, row)

\* One iteration of `for index, row in data.iterrows()`.
LoopBody(acc, index, row) ==
  IF notna(row["EPIC"]) THEN EpicRow(acc, index, row)
  ELSE IF notna(row["SUMMARY"]) THEN StoryRow(acc, index, row)
  ELSE acc

RECURSIVE Loop(_, _, _)
Loop(rows, i, acc) ==
  IF i > Len(rows) \/ acc.err # NoError
  THEN acc
  ELSE Loop(rows, i + 1, LoopBody(acc, i - 1, rows[i]))

\* dataframeprocess(data): the loop's result with final_data, or the error.
\* origin[k] is the index (0-based, as iterrows gives it) of the input row
\* during whose iteration data_rows[k] was appended.
dataframeprocess(data) ==
  IF ~(required_cols \subseteq Range(data.columns))
  THEN [LoopInit EXCEPT !.err = MissingColumnError]
  ELSE Loop(data.rows, 1, LoopInit)

\* ------------------------------------------------------------ postprocess
\* Lines 174-183: the estimate of a record in days.  An Epic record takes
\* its entry of epic_estimates; any other value goes through float(), the
\* placeholder "" counting as 0.
EstimateDays(r, epic_estimates) ==
  IF r["Issue Type"] = "Epic" /\ r["Epic Name"] \in DOMAIN epic_estimates
  THEN epic_estimates[r["Epic Name"]]
  ELSE IF r["Original Estimate"] = "" THEN 0 ELSE float(r["Original Estimate"])

\* Lines 186-191: days to seconds; on whole days round() and astype(int)
\* change nothing.
ToSeconds(days) == days * 8 * 3600

\* Lines 194-195: the two added columns, after the seven existing ones.
FinalColumns_Inserted ==
  SubSeq(columns, 1, 6) \o <<"Components 1", "Components 2">> \o SubSeq(columns, 7, 7)
FinalColumns == columns \o <<"Components 1", "Components 2">>

\* Lines 198-206: an Epic record's three component cells from the tracker.
EpicComponents(t) ==
  [c \in {"Components", "Components 1", "Components 2"} |->
     CASE c = "Components" -> IF t.Android THEN "Android" ELSE ""
       [] c = "Components 1" -> IF t.iOS THEN "iOS" ELSE ""
       [] c = "Components 2" -> IF t.Server THEN "Server" ELSE ""]

FinalRecord(r, epic_estimates, epic_components_tracker) ==
  [c \in Range(FinalColumns) |->
     CASE c = "Original Estimate" -> ToSeconds(EstimateDays(r, epic_estimates))
       [] c \in {"Components", "Components 1", "Components 2"} ->
            IF r["Issue Type"] = "Epic"
            THEN EpicComponents(epic_components_tracker[r["Epic Name"]])[c]
            ELSE r["Components"]
       [] OTHER -> r[c]]

postprocess(data_rows, epic_estimates, epic_components_tracker) ==
  [columns |-> FinalColumns,
   rows |-> [k \in 1..Len(data_rows) |->
               FinalRecord(data_rows[k], epic_estimates, epic_components_tracker)]]

\* ------------------------------------------------------------- the inputs
\* The spreadsheet export: each platform column is followed by a 'C' column
\* that read_csv names "Unnamed: n".
ExportHeader ==
  <<"EPIC", "SUMMARY", "IOS", "Unnamed: 3", "AND", "Unnamed: 5", "SERV",
    "Unnamed: 7", "NOTES">>

\* A header with no EPIC column, and one whose seventh column is NOTES.
NoEpicHeader == <<"SUMMARY", "IOS", "AND", "SERV", "NOTES", "OWNER">>
WideHeader == <<"EPIC", "SUMMARY", "IOS", "AND", "SERV", "OWNER", "NOTES">>

\* A row over `header`: the six semantic cells given, every other cell "C".
Cells(header, epic, summary, ios, and, serv, notes) ==
  [c \in Range(header) |->
     CASE c = "EPIC" -> epic
       [] c = "SUMMARY" -> summary
       [] c = "IOS" -> ios
       [] c = "AND" -> and
       [] c = "SERV" -> serv
       [] c = "NOTES" -> notes
       [] OTHER -> "C"]

TemplateRow(h) == Cells(h, NaN, "As a user I need to", NaN, NaN, NaN, NaN)
EndRow(h) == Cells(h, "END", NaN, NaN, NaN, NaN, NaN)

\* The rows a table body is drawn from: Epic rows (one carrying platform
\* cells), the sentinel, a row empty in its six semantic cells, Story rows
\* with all, some and no platform cells, a Story row with a cell that is no
\* number, and a row with neither EPIC nor SUMMARY.
RowSet(h) ==
  { Cells(h, "E1", "s1", NaN, NaN, NaN, "n1"),
    Cells(h, "E2", NaN, NaN, "abc", "1", NaN),
    EndRow(h),
    Cells(h, NaN, NaN, NaN, NaN, NaN, NaN),
    Cells(h, NaN, "t1", "2", "3", "1", "n2"),
    Cells(h, NaN, "t2", NaN, "1", "2", NaN),
    Cells(h, NaN, "t3", "abc", NaN, "1", NaN),
    Cells(h, NaN, NaN, NaN, "1", NaN, "n3"),
    Cells(h, NaN, "t4", NaN, NaN, NaN, NaN) }

SeqsUpTo(S, n) == UNION {[1..k -> S] : k \in 0..n}

Table(h, rows) == [columns |-> h, rows |-> rows]

\* The uploaded files: the export format with any first row and any body,
\* the file with a header only, and short files under the other headers.
Uploads ==
  {Table(ExportHeader, <<first>> \o body) :
     first \in {TemplateRow(ExportHeader), EndRow(ExportHeader)},
     body \in SeqsUpTo(RowSet(ExportHeader), MaxRows)}
  \cup {Table(ExportHeader, <<>>)}
  \cup UNION {{Table(h, <<TemplateRow(h)>> \o body) : body \in SeqsUpTo(RowSet(h), 2)} :
              h \in {NoEpicHeader, WideHeader}}

\* ------------------------------------------------------------------ state
VARIABLES
  pc,            \* where the one request of Spec stands in upload_file
  filename,      \* secure_filename(file.filename)
  upload,        \* the table in the uploaded file
  data,          \* preprocess_file's `data`
  err,           \* the ValueError raised, or NoError
  expanded,      \* what dataframeprocess returned
  final_data,    \* what postprocess returned
  output_file,   \* preprocess_file's output file name: <<input name, timestamp>>
  response,      \* what upload_file returned
  uploads,       \* files in UPLOAD_FOLDER put there by file.save: name -> table
  outputs,       \* files in UPLOAD_FOLDER written by to_csv: <<name, timestamp>> -> table
  processed,     \* files in UPLOAD_FOLDER/processed: <<name, timestamp>> -> table
  clock,         \* int(time.time())
  reqs           \* the concurrent requests of SpecUpload

vars ==
  <<pc, filename, upload, data, err, expanded, final_data, output_file,
    response, uploads, outputs, processed, clock, reqs>>

NoTable == [columns |-> <<>>, rows |-> <<>>]
NoResponse == [status |-> 0, error |-> "", download_url |-> <<>>]
NoFiles == <<>>

Remove(f, k) == [x \in DOMAIN f \ {k} |-> f[x]]

Init ==
  /\ pc = "request"
  /\ filename = "plan.csv"
  /\ upload \in Uploads
  /\ data = NoTable
  /\ err = NoError
  /\ expanded = LoopInit
  /\ final_data = NoTable
  /\ output_file = <<>>
  /\ response = NoResponse
  /\ uploads = NoFiles
  /\ outputs = NoFiles
  /\ processed = NoFiles
  /\ clock = 0
  /\ reqs = <<>>

\* upload_file, lines 255-259: file.save(input_filepath).
Save ==
  /\ pc = "request"
  /\ uploads' = (filename :> upload) @@ uploads
  /\ pc' = "saved"
  /\ UNCHANGED <<filename, upload, data, err, expanded, final_data, output_file,
                 response, outputs, processed, clock, reqs>>

\* preprocess_file, line 217: pd.read_csv(input_filepath).
ReadCsv ==
  /\ pc = "saved"
  /\ data' = uploads[filename]
  /\ pc' = "loaded"
  /\ UNCHANGED <<filename, upload, err, expanded, final_data, output_file,
                 response, uploads, outputs, processed, clock, reqs>>

\* preprocess_file, line 220.
Preprocess ==
  /\ pc = "loaded"
  /\ LET r == preprocess(data)
     IN  /\ err' = r.err
         /\ data' = IF r.err = NoError THEN Table(r.columns, r.rows) ELSE data
         /\ pc' = IF r.err = NoError THEN "cleaned" ELSE "raised"
  /\ UNCHANGED <<filename, upload, expanded, final_data, output_file, response,
                 uploads, outputs, processed, clock, reqs>>

\* preprocess_file, line 221.
DataframeProcess ==
  /\ pc = "cleaned"
  /\ LET r == dataframeprocess(data)
     IN  /\ err' = r.err
         /\ expanded' = r
         /\ pc' = IF r.err = NoError THEN "expanded" ELSE "raised"
  /\ UNCHANGED <<filename, upload, data, final_data, output_file, response,
                 uploads, outputs, processed, clock, reqs>>

\* preprocess_file, line 222.
Postprocess ==
  /\ pc = "expanded"
  /\ final_data' = postprocess(expanded.data_rows, expanded.epic_estimates,
                               expanded.epic_components_tracker)
  /\ pc' = "finished"
  /\ UNCHANGED <<filename, upload, data, err, expanded, output_file, response,
                 uploads, outputs, processed, clock, reqs>>

\* preprocess_file, lines 225-232: the timestamped name and to_csv.
ToCsv ==
  /\ pc = "finished"
  /\ output_file' = <<filename, clock>>
  /\ outputs' = (<<filename, clock>> :> final_data) @@ outputs
  /\ pc' = "written"
  /\ UNCHANGED <<filename, upload, data, err, expanded, final_data, response,
                 uploads, processed, clock, reqs>>

\* upload_to_bucket: os.rename into the processed directory.
UploadToBucket ==
  /\ pc = "written"
  /\ output_file \in DOMAIN outputs
  /\ processed' = (output_file :> outputs[output_file]) @@ processed
  /\ outputs' = Remove(outputs, output_file)
  /\ pc' = "moved"
  /\ UNCHANGED <<filename, upload, data, err, expanded, final_data, output_file,
                 response, uploads, clock, reqs>>

\* upload_file, lines 270-271: the page with the download link.
RenderDownload ==
  /\ pc = "moved"
  /\ response' = [status |-> 200, error |-> "", download_url |-> output_file]
  /\ pc' = "done"
  /\ UNCHANGED <<filename, upload, data, err, expanded, final_data, output_file,
                 uploads, outputs, processed, clock, reqs>>

\* upload_file, lines 264-266: except ValueError.
ErrorResponse ==
  /\ pc = "raised"
  /\ response' = [status |-> 400, error |-> err, download_url |-> <<>>]
  /\ pc' = "done"
  /\ UNCHANGED <<filename, upload, data, err, expanded, final_data, output_file,
                 uploads, outputs, processed, clock, reqs>>

Next ==
  \/ Save
  \/ ReadCsv
  \/ Preprocess
  \/ DataframeProcess
  \/ Postprocess
  \/ ToCsv
  \/ UploadToBucket
  \/ RenderDownload
  \/ ErrorResponse

Spec == Init /\ [][Next]_vars

\* ------------------------------------------------- vocabulary of the claims
PreprocessErrors == {EmptyInputError, MissingEpicColumnError, MissingSentinelError}

\* preprocess has returned: `data` is the cleaned table.
Cleaned ==
  \/ pc \in {"cleaned", "expanded", "finished", "written", "moved"}
  \/ pc \in {"raised", "done"} /\ err \notin PreprocessErrors

\* dataframeprocess has returned or raised.
Walked == Cleaned /\ pc # "cleaned"

\* dataframeprocess has returned.
Succeeded == Walked /\ err = NoError

\* postprocess has returned.
Finished == Succeeded /\ pc # "expanded"

\* Classification of the cleaned row at position i (index i - 1).
EpicAt(i) == notna(data.rows[i]["EPIC"])
StoryAt(i) == ~EpicAt(i) /\ notna(data.rows[i]["SUMMARY"])

Positions == 1..Len(data.rows)

\* The most recent Epic row above position i (0: none), and the next Epic
\* row below it (Len + 1: none).
EpicAbove(i) ==
  IF \E j \in 1..(i - 1) : EpicAt(j)
  THEN CHOOSE j \in 1..(i - 1) : EpicAt(j) /\ \A m \in (j + 1)..(i - 1) : ~EpicAt(m)
  ELSE 0
EpicBelow(i) ==
  IF \E j \in (i + 1)..Len(data.rows) : EpicAt(j)
  THEN CHOOSE j \in (i + 1)..Len(data.rows) :
         EpicAt(j) /\ \A m \in (i + 1)..(j - 1) : ~EpicAt(m)
  ELSE Len(data.rows) + 1

\* The output positions of the records emitted for the row at position i.
RecordsOf(i) == {k \in 1..Len(expanded.origin) : expanded.origin[k] = i - 1}

\* The records of the output that the claims speak of: dataframeprocess's
\* before postprocess has run, the finished table's after.
Output == IF Finished THEN final_data.rows ELSE expanded.data_rows

\* C1: on every successful conversion, each Story record's Epic Link is the
\* Epic Name of an Epic record earlier in the output, and the output keeps
\* input order: every Epic row has exactly one Epic record, carrying its
\* name; the records follow the order of the rows they come from; and each
\* Story record lies after the Epic record of the most recent Epic row above
\* its Story row, whose name it links to, and before the Epic record of the
\* next Epic row.
C1_LinkAndOrder ==
  Succeeded =>
    /\ Len(Output) = Len(expanded.origin)
    /\ \A k \in 1..Len(Output) :
         Output[k]["Issue Type"] = "Story" =>
           \E j \in 1..(k - 1) :
             /\ Output[j]["Issue Type"] = "Epic"
             /\ Output[j]["Epic Name"] = Output[k]["Epic Link"]
    /\ \A i \in Positions :
         EpicAt(i) =>
           \E k \in 1..Len(Output) :
             /\ RecordsOf(i) = {k}
             /\ Output[k]["Issue Type"] = "Epic"
             /\ Output[k]["Epic Name"] = data.rows[i]["EPIC"]
    /\ \A k1, k2 \in 1..Len(Output) :
         k1 < k2 => expanded.origin[k1] <= expanded.origin[k2]
    /\ \A k \in 1..Len(Output) :
         Output[k]["Issue Type"] = "Story" =>
           LET i == expanded.origin[k] + 1
           IN  /\ i \in Positions /\ StoryAt(i)
               /\ EpicAbove(i) # 0
               /\ \A ke \in RecordsOf(EpicAbove(i)) :
                    ke < k /\ Output[ke]["Epic Name"] = Output[k]["Epic Link"]
               /\ EpicBelow(i) <= Len(data.rows) =>
                    \A kn \in RecordsOf(EpicBelow(i)) : k < kn

\* A conversion that succeeded on Epic, Story, Epic: a Story record lies
\* between two Epic records.
C1_Witness ==
  /\ Finished
  /\ \E k \in 2..(Len(Output) - 1) :
       /\ Output[k]["Issue Type"] = "Story"
       /\ Output[k - 1]["Issue Type"] = "Epic"
       /\ \E kn \in (k + 1)..Len(Output) : Output[kn]["Issue Type"] = "Epic"

\* What the claim expects of a Story row: the platforms of its populated
\* cells, Server first, then iOS, then Android.
ExpectedTags(row) ==
  (IF row["SERV"] # NaN THEN <<"Server">> ELSE <<>>)
  \o (IF row["IOS"] # NaN THEN <<"iOS">> ELSE <<>>)
  \o (IF row["AND"] # NaN THEN <<"Android">> ELSE <<>>)

CellOfTag(row, tag) ==
  CASE tag = "Server" -> row["SERV"]
    [] tag = "iOS" -> row["IOS"]
    [] tag = "Android" -> row["AND"]

\* C3: dataframeprocess emits for every Story row exactly one Story record
\* per populated platform cell and no other record: the records are
\* contiguous, in the order Server, iOS, Android, each with Components equal
\* to its platform and Original Estimate equal to that platform's own cell.
\* Three populated cells give three records, none gives none.
C3_FanOut ==
  Succeeded =>
    \A i \in Positions :
      StoryAt(i) =>
        LET tags == ExpectedTags(data.rows[i])
            ks == RecordsOf(i)
        IN  /\ Cardinality(ks) = Len(tags)
            /\ (Cardinality({c \in {"SERV", "IOS", "AND"} : data.rows[i][c] # NaN}) = 3
                  => Cardinality(ks) = 3)
            /\ ks # {} =>
                 LET first == CHOOSE k \in ks : \A m \in ks : k <= m
                 IN  /\ ks = first..(first + Len(tags) - 1)
                     /\ \A n \in 1..Len(tags) :
                          LET rec == expanded.data_rows[first + n - 1]
                          IN  /\ rec["Issue Type"] = "Story"
                              /\ rec["Components"] = tags[n]
                              /\ rec["Original Estimate"] =
                                   CellOfTag(data.rows[i], tags[n])
                              /\ rec["Summary"] = data.rows[i]["SUMMARY"]

\* dataframeprocess has returned on a table with a Story row whose three
\* platform cells are populated and one with only some populated.
C3_Witness ==
  /\ Succeeded
  /\ \E i \in Positions : StoryAt(i) /\ Len(ExpectedTags(data.rows[i])) = 3
  /\ \E i \in Positions : StoryAt(i) /\ Len(ExpectedTags(data.rows[i])) < 3

\* The uploaded table as the sentinel scan sees it: the first data row and
\* the rows empty in the six kept columns removed.
KeptColumns == FirstSix(DropPlaceholders(upload.columns))
Scanned ==
  SelectSeq([i \in 1..(Len(upload.rows) - 1) |-> Project(upload.rows[i + 1], KeptColumns)],
            LAMBDA r : \E c \in DOMAIN r : r[c] # NaN)
ReachesScan == Len(upload.rows) >= 2 /\ "EPIC" \in Range(KeptColumns)
EndPositions == {i \in 1..Len(Scanned) : Scanned[i]["EPIC"] = "END"}

\* preprocess has returned or raised.
Preprocessed == pc \notin {"request", "saved", "loaded"}

\* C4: for a table that reaches the sentinel scan, preprocess raises the
\* missing-sentinel error exactly when no EPIC cell of the scanned rows is
\* "END"; otherwise the cleaned table is exactly the rows strictly before the
\* first "END", so every record and every error comes from a row above it.
\* A table in the required columns whose first scanned EPIC cell is "END"
\* converts without error to a finished table of no records.
C4_SentinelCut ==
  Preprocessed =>
    /\ (err = MissingSentinelError) <=> (ReachesScan /\ EndPositions = {})
    /\ (ReachesScan /\ EndPositions # {}) =>
         LET end == CHOOSE i \in EndPositions : \A j \in EndPositions : i <= j
         IN  /\ Cleaned
             /\ data.rows = [i \in 1..(end - 1) |-> Scanned[i]]
             /\ \A k \in 1..Len(expanded.origin) : expanded.origin[k] < end - 1
             /\ (Walked /\ err # NoError /\ err # MissingColumnError)
                  => expanded.index < end - 1
             /\ (end = 1 /\ required_cols \subseteq Range(KeptColumns)) =>
                  /\ err = NoError
                  /\ Finished => final_data.rows = <<>>
                  /\ pc = "done" =>
                       /\ response.status = 200
                       /\ processed[response.download_url].rows = <<>>

\* A table with two "END" rows, rows above the first and a row between them
\* has been converted and its output stored.
C4_Witness ==
  /\ pc = "done" /\ err = NoError
  /\ Cardinality(EndPositions) = 2
  /\ Len(data.rows) >= 1
  /\ Len(Scanned) > Len(data.rows) + 2
  /\ response.download_url \in DOMAIN processed

\* A table whose first scanned EPIC cell is "END", with rows below it, has
\* been converted to the table of no records.
C4_EndFirstReached ==
  /\ pc = "done" /\ err = NoError
  /\ Len(Scanned) >= 2
  /\ Scanned[1]["EPIC"] = "END"
  /\ processed[response.download_url].rows = <<>>

\* The Story rows of the cleaned table with a populated platform cell that
\* is no number.
BadCellAt(i) ==
  /\ StoryAt(i)
  /\ \E c \in {"SERV", "IOS", "AND"} :
       data.rows[i][c] # NaN /\ data.rows[i][c] \notin Numeric
HasBadCell == \E i \in Positions : BadCellAt(i)
OrphanAt(i) == StoryAt(i) /\ EpicAbove(i) = 0
HasColumns == required_cols \subseteq Range(data.columns)

\* No output of the conversion exists anywhere.
NoOutput ==
  /\ DOMAIN outputs = {}
  /\ DOMAIN processed = {}
  /\ response.download_url = <<>>
  /\ response.status # 200

\* C5 as stated: a Story row before the sentinel with a platform cell that
\* is no number makes the conversion fail with the invalid-estimate error,
\* and no output is produced.
C5_Original ==
  (Walked /\ HasBadCell) =>
    /\ err = InvalidEstimateError
    /\ NoOutput
    /\ pc = "done" => response.status = 400

\* C5, amended: such a row makes the conversion fail and no output is
\* produced: no output file is written, nothing is moved into the processed
\* directory and the response is an error with no download locator.  The
\* error is the invalid-estimate error, naming the first such row, unless a
\* required column is missing (missing-column error) or a Story row stands
\* above every Epic row (orphan-story error), which are raised first.
C5_WholeInputFailure ==
  (Cleaned /\ HasBadCell) =>
    /\ NoOutput
    /\ Walked =>
         /\ err # NoError
         /\ err = IF ~HasColumns THEN MissingColumnError
                  ELSE IF \E i \in Positions : OrphanAt(i) THEN OrphanStoryError
                  ELSE InvalidEstimateError
         /\ err = InvalidEstimateError =>
              /\ BadCellAt(expanded.index + 1)
              /\ \A j \in 1..expanded.index : ~BadCellAt(j)
    /\ pc = "done" => response.status = 400 /\ response.error = err

\* The error response has been returned for a table whose bad cell comes
\* after an Epic row and a Story row that are valid.
C5_Witness ==
  /\ pc = "done"
  /\ err = InvalidEstimateError
  /\ response.status = 400
  /\ expanded.index >= 2
  /\ \E j \in 1..expanded.index : StoryAt(j) /\ Len(ExpectedTags(data.rows[j])) > 0

\* C6: a Story row reached before any Epic row makes dataframeprocess raise
\* the orphan-story error with that row's index; the row is not skipped and
\* no Story record ever has an empty Epic Link.  A Story row below an Epic
\* row never raises it.
C6_OrphanStory ==
  (Walked /\ HasColumns) =>
    /\ (\E i \in Positions : OrphanAt(i)) =>
         /\ err = OrphanStoryError
         /\ OrphanAt(expanded.index + 1)
         /\ \A j \in 1..expanded.index : ~OrphanAt(j)
         /\ NoOutput
    /\ err = OrphanStoryError =>
         /\ expanded.index + 1 \in Positions
         /\ OrphanAt(expanded.index + 1)
    /\ \A k \in 1..Len(Output) :
         Output[k]["Issue Type"] = "Story" => Output[k]["Epic Link"] # ""

\* The orphan-story error has been raised at a row that is not the first of
\* the cleaned table, in a table that has an Epic row further down.
C6_Witness ==
  /\ Walked
  /\ err = OrphanStoryError
  /\ expanded.index >= 1
  /\ \E i \in Positions : EpicAt(i)

RECURSIVE SumOver(_, _)
SumOver(f, S) ==
  IF S = {} THEN 0
  ELSE LET k == CHOOSE k \in S : TRUE IN f[k] + SumOver(f, S \ {k})

\* The Story rows of the Epic row at position i: those between it and the
\* next Epic row (or the end of the table); and the records emitted for them.
StoryRowsOf(i) == {j \in (i + 1)..(EpicBelow(i) - 1) : StoryAt(j)}
StoryRecordsOf(i) == UNION {RecordsOf(j) : j \in StoryRowsOf(i)}

\* The estimate in days that dataframeprocess put in record k.
Days == [k \in 1..Len(expanded.data_rows) |->
           IF expanded.data_rows[k]["Issue Type"] = "Story"
           THEN float(expanded.data_rows[k]["Original Estimate"])
           ELSE 0]

\* C2: in the finished table every Epic record's estimate is 28800 times the
\* sum, in days, of the estimates of the Story records emitted from the
\* Story rows between its Epic row and the next Epic row (or the end of the
\* table), 0 when there are none; every Story record's is 28800 times its own.
C2_SumProperty ==
  Finished =>
    /\ \A i \in Positions :
         EpicAt(i) =>
           \A k \in RecordsOf(i) :
             final_data.rows[k]["Original Estimate"] =
               28800 * SumOver(Days, StoryRecordsOf(i))
    /\ \A k \in 1..Len(final_data.rows) :
         final_data.rows[k]["Issue Type"] = "Story" =>
           final_data.rows[k]["Original Estimate"] = 28800 * Days[k]

\* C7 as stated: the finished table has the nine columns in the order Issue
\* Type, Epic Name, Epic Link, Summary, Description, Components, Components 1,
\* Components 2, Original Estimate.
C7_Original ==
  Finished =>
    final_data.columns =
      <<"Issue Type", "Epic Name", "Epic Link", "Summary", "Description",
        "Components", "Components 1", "Components 2", "Original Estimate">>

\* C7, amended: the finished table, and the file written from it, has exactly
\* nine columns in the order Issue Type, Epic Name, Epic Link, Summary,
\* Description, Components, Original Estimate, Components 1, Components 2:
\* the two added component columns come last, after Original Estimate.
C7_Columns ==
  Finished =>
    LET nine == <<"Issue Type", "Epic Name", "Epic Link", "Summary", "Description",
                  "Components", "Original Estimate", "Components 1", "Components 2">>
    IN  /\ final_data.columns = nine
        /\ \A k \in 1..Len(final_data.rows) : DOMAIN final_data.rows[k] = Range(nine)
        /\ pc = "done" => processed[response.download_url].columns = nine

\* The finished table of a conversion with Epic and Story records has been
\* stored in the processed directory.
C7_Witness ==
  /\ pc = "done" /\ err = NoError
  /\ \E k \in 1..Len(final_data.rows) : final_data.rows[k]["Issue Type"] = "Story"

\* C8: in the finished table an Epic record's cells Components, Components 1,
\* Components 2 are "Android", "iOS", "Server" exactly when some Story row
\* between its Epic row and the next Epic row (or the end of the table) has a
\* populated AND, IOS, SERV cell, and "" otherwise; a Story record's two added
\* cells both equal its own platform tag.
C8_ComponentColumns ==
  Finished =>
    /\ \A i \in Positions :
         EpicAt(i) =>
           \A k \in RecordsOf(i) :
             LET has(c) == \E j \in StoryRowsOf(i) : data.rows[j][c] # NaN
                 rec == final_data.rows[k]
             IN  /\ rec["Components"] = (IF has("AND") THEN "Android" ELSE "")
                 /\ rec["Components 1"] = (IF has("IOS") THEN "iOS" ELSE "")
                 /\ rec["Components 2"] = (IF has("SERV") THEN "Server" ELSE "")
    /\ \A k \in 1..Len(final_data.rows) :
         final_data.rows[k]["Issue Type"] = "Story" =>
           /\ final_data.rows[k]["Components"] = expanded.data_rows[k]["Components"]
           /\ final_data.rows[k]["Components 1"] = expanded.data_rows[k]["Components"]
           /\ final_data.rows[k]["Components 2"] = expanded.data_rows[k]["Components"]

\* The cleaned table with a first row put back on top, and with the sentinel
\* row put back below it as well.
WithDummy(t) == Table(t.columns, <<TemplateRow(t.columns)>> \o t.rows)
WithDummyAndEnd(t) ==
  Table(t.columns, <<TemplateRow(t.columns)>> \o t.rows \o <<EndRow(t.columns)>>)

\* C9 as stated: preprocess run on its own output, a dummy first row put
\* back and nothing done about the sentinel, returns the same table.
C9_Original ==
  (Cleaned /\ pc = "cleaned") =>
    LET again == preprocess(WithDummy(data))
    IN  again.err = NoError /\ again.rows = data.rows

\* C9, amended: preprocess run on its own output with a dummy first row put
\* back on top and the "END" row put back at the bottom returns the same
\* table: the same columns and the same rows.
C9_Idempotent ==
  (Cleaned /\ pc = "cleaned") =>
    LET again == preprocess(WithDummyAndEnd(data))
    IN  /\ again.err = NoError
        /\ again.columns = data.columns
        /\ again.rows = data.rows

\* preprocess has returned a table of several rows, cut out of an upload that
\* had placeholder columns, rows empty in the kept columns and rows below the
\* sentinel.
C9_Witness ==
  /\ pc = "cleaned"
  /\ Len(data.rows) >= 2
  /\ Len(upload.columns) > Len(data.columns)
  /\ Len(upload.rows) > Len(data.rows) + 2

\* --------------------------------------------------- concurrent uploads
\* preprocess_file, lines 220-222: the three stages in sequence; a stage
\* that raises ends the call.
Pipeline(t) ==
  LET cleaned == preprocess(t)
  IN  IF cleaned.err # NoError
      THEN [err |-> cleaned.err, final_data |-> NoTable]
      ELSE
        LET walked == dataframeprocess(Table(cleaned.columns, cleaned.rows))
        IN  IF walked.err # NoError
            THEN [err |-> walked.err, final_data |-> NoTable]
            ELSE [err |-> NoError,
                  final_data |-> postprocess(walked.data_rows, walked.epic_estimates,
                                             walked.epic_components_tracker)]

\* werkzeug's secure_filename on the names the requests carry: directory
\* parts are removed.
secure_filename(name) ==
  CASE name = "../plan.csv" -> "plan.csv"
    [] OTHER -> name

Requests == {"r1", "r2"}
FileNames == {"plan.csv", "../plan.csv", "backlog.csv"}

\* Three uploads in the export format: two that convert, to different
\* tables, and one with a cell that is no number.
Samples ==
  LET h == ExportHeader
      file(rows) == Table(h, <<TemplateRow(h)>> \o rows \o <<EndRow(h)>>)
  IN  { file(<<Cells(h, "E1", "s1", NaN, NaN, NaN, "n1"),
               Cells(h, NaN, "t1", "2", "3", "1", "n2")>>),
        file(<<Cells(h, "E2", "s2", NaN, NaN, NaN, NaN),
               Cells(h, NaN, "t2", NaN, "1", "2", NaN)>>),
        file(<<Cells(h, "E1", "s1", NaN, NaN, NaN, "n1"),
               Cells(h, NaN, "t3", "abc", NaN, "1", NaN)>>) }

NewRequest(name, body) ==
  [pc |-> "request", name |-> name, body |-> body, filename |-> "",
   read |-> NoTable, result |-> [err |-> NoError, final_data |-> NoTable],
   output_file |-> <<>>, response |-> NoResponse]

InitUpload ==
  /\ reqs \in [Requests -> {NewRequest(n, b) : n \in FileNames, b \in Samples}]
  /\ uploads = NoFiles
  /\ outputs = NoFiles
  /\ processed = NoFiles
  /\ clock = 0
  /\ pc = "request"
  /\ filename = ""
  /\ upload = NoTable
  /\ data = NoTable
  /\ err = NoError
  /\ expanded = LoopInit
  /\ final_data = NoTable
  /\ output_file = <<>>
  /\ response = NoResponse

SingleVars ==
  <<pc, filename, upload, data, err, expanded, final_data, output_file, response>>

\* upload_file, lines 255-259, in request r.
USave(r) ==
  /\ reqs[r].pc = "request"
  /\ LET fn == secure_filename(reqs[r].name)
     IN  /\ uploads' = (fn :> reqs[r].body) @@ uploads
         /\ reqs' = [reqs EXCEPT ![r].pc = "saved", ![r].filename = fn]
  /\ UNCHANGED <<outputs, processed, clock>>
  /\ UNCHANGED SingleVars

\* preprocess_file, lines 217-222, in request r: read_csv of the file now at
\* the input path, then the pipeline on what was read.
URead(r) ==
  /\ reqs[r].pc = "saved"
  /\ LET t == uploads[reqs[r].filename]
         res == Pipeline(t)
     IN  reqs' = [reqs EXCEPT ![r].read = t,
                              ![r].result = res,
                              ![r].pc = IF res.err = NoError THEN "finished" ELSE "raised"]
  /\ UNCHANGED <<uploads, outputs, processed, clock>>
  /\ UNCHANGED SingleVars

\* preprocess_file, lines 225-232, in request r.
UToCsv(r) ==
  /\ reqs[r].pc = "finished"
  /\ LET out == <<reqs[r].filename, clock>>
     IN  /\ outputs' = (out :> reqs[r].result.final_data) @@ outputs
         /\ reqs' = [reqs EXCEPT ![r].output_file = out, ![r].pc = "written"]
  /\ UNCHANGED <<uploads, processed, clock>>
  /\ UNCHANGED SingleVars

\* upload_to_bucket in request r: os.rename replaces a file already at the
\* target, and raises FileNotFoundError (no ValueError: the request ends in a
\* server error) when the source is gone.
UUploadToBucket(r) ==
  /\ reqs[r].pc = "written"
  /\ LET out == reqs[r].output_file
     IN  IF out \in DOMAIN outputs
         THEN /\ processed' = (out :> outputs[out]) @@ processed
              /\ outputs' = Remove(outputs, out)
              /\ reqs' = [reqs EXCEPT ![r].pc = "moved"]
         ELSE /\ reqs' = [reqs EXCEPT
                            ![r].pc = "done",
                            ![r].response = [status |-> 500, error |-> "FileNotFoundError",
                                             download_url |-> <<>>]]
              /\ UNCHANGED <<outputs, processed>>
  /\ UNCHANGED <<uploads, clock>>
  /\ UNCHANGED SingleVars

\* upload_file, lines 270-271, in request r.
URenderDownload(r) ==
  /\ reqs[r].pc = "moved"
  /\ reqs' = [reqs EXCEPT
                ![r].pc = "done",
                ![r].response = [status |-> 200, error |-> "",
                                 download_url |-> reqs[r].output_file]]
  /\ UNCHANGED <<uploads, outputs, processed, clock>>
  /\ UNCHANGED SingleVars

\* upload_file, lines 264-266, in request r.
UErrorResponse(r) ==
  /\ reqs[r].pc = "raised"
  /\ reqs' = [reqs EXCEPT
                ![r].pc = "done",
                ![r].response = [status |-> 400, error |-> reqs[r].result.err,
                                 download_url |-> <<>>]]
  /\ UNCHANGED <<uploads, outputs, processed, clock>>
  /\ UNCHANGED SingleVars

\* A second of time.time() passes.
Tick ==
  /\ clock < MaxClock
  /\ clock' = clock + 1
  /\ UNCHANGED <<reqs, uploads, outputs, processed>>
  /\ UNCHANGED SingleVars

NextUpload ==
  \/ \E r \in Requests : USave(r)
  \/ \E r \in Requests : URead(r)
  \/ \E r \in Requests : UToCsv(r)
  \/ \E r \in Requests : UUploadToBucket(r)
  \/ \E r \in Requests : URenderDownload(r)
  \/ \E r \in Requests : UErrorResponse(r)
  \/ Tick

SpecUpload == InitUpload /\ [][NextUpload]_vars

\* C10: two requests handled concurrently are kept apart by the file naming:
\* the input file a request saved still holds its own upload when it reads
\* it, the output file it wrote still holds its own output when it moves it,
\* no request ends in a server error, and the download locator it returns
\* serves the output computed from its own upload.
C10_CollisionFree ==
  \A r \in Requests :
    /\ reqs[r].pc = "saved" =>
         /\ reqs[r].filename \in DOMAIN uploads
         /\ uploads[reqs[r].filename] = reqs[r].body
    /\ reqs[r].pc = "written" =>
         /\ reqs[r].output_file \in DOMAIN outputs
         /\ outputs[reqs[r].output_file] = Pipeline(reqs[r].body).final_data
    /\ reqs[r].response.status # 500
    /\ reqs[r].response.status = 200 =>
         /\ reqs[r].response.download_url \in DOMAIN processed
         /\ processed[reqs[r].response.download_url] = Pipeline(reqs[r].body).final_data

====
